---- MODULE Spec2Model ----
(***************************************************************************)
(* A model of lib/Client.js: the Client orchestrator that validates a file *)
(* request, asks the bridge for a token, then for the file pointers, and   *)
(* hands the pointers to the bridge for reconstruction.                    *)
(*                                                                         *)
(* The bridge client (./BridgeClient) and storj-lib's calculateBucketId    *)
(* are collaborators; they are modelled by their contract: every call      *)
(* made to the bridge is answered later by one invocation of the callback  *)
(* that was passed with it.                                                *)
(***************************************************************************)
EXTENDS Integers, Sequences, FiniteSets, TLC

\* Number of add() invocations a behaviour may hold.
MaxAdds == 2

\* Number of destroy() invocations a behaviour may hold.
MaxDestroy == 2

Adds == 1..MaxAdds

----------------------------------------------------------------------------
(* JavaScript values: a pair <<type, payload>>.                            *)

Undefined == <<"undefined", "">>
Null == <<"null", "">>
Str(s) == <<"string", s>>
Num(n) == <<"number", n>>
Obj(n) == <<"object", n>>
\* A value for which `e instanceof Error` is true.
Err(m) == <<"Error", m>>

\* typeof v
TypeOf(v) == IF v[1] \in {"null", "Error"} THEN "object" ELSE v[1]

\* !!v
Truthy(v) == v \notin {Undefined, Null, Str(""), Num("0")}

\* A test that takes every object for an Error: typeof e === 'object', which
\* null passes.
TypeOfObject(e) == TypeOf(e) = "object"

\* A test that takes every truthy first argument for a failure: if (e).
IsTruthy(e) == Truthy(e)

\* e instanceof Error
InstanceOfError(e) == e[1] = "Error"

----------------------------------------------------------------------------
(* Request objects.  The object passed to the k-th add() lives at heap[k]; *)
(* a later add() may pass an object an earlier add() was given.            *)

EmptyObject == [file |-> Undefined, bucketId |-> Undefined,
                user |-> Undefined, bucketName |-> Undefined]

FileValues == {Undefined, Str(""), Str("f")}
BucketIdValues == {Undefined, Str(""), Str("b"), Num("7")}
UserValues == {Undefined, Str("u")}
BucketNameValues == {Undefined, Str("n")}

ObjectLiterals == [file : FileValues, bucketId : BucketIdValues,
                   user : UserValues, bucketName : BucketNameValues]

\* The request objects the callers of the pipeline pass: by bucket id, by user
\* and bucket name, with empty strings, and three that fail the scrubbing.
Request(file, bucketId, user, bucketName) ==
    [file |-> file, bucketId |-> bucketId, user |-> user, bucketName |-> bucketName]

Requests ==
    { Request(Str("f"), Str("b"), Undefined, Undefined),
      Request(Str("f"), Undefined, Str("u"), Str("n")),
      Request(Str(""), Str(""), Str("u"), Str("n")),
      Request(Undefined, Undefined, Undefined, Undefined),
      Request(Str("f"), Undefined, Str("u"), Undefined),
      Request(Str("f"), Num("7"), Undefined, Undefined) }

\* What the caller hands to add(): nothing, a truthy non-object, or an object.
NoArgument == <<"none", 0>>
NumberArgument == <<"number", 0>>
Ref(o) == <<"ref", o>>

\* What `removed` holds once remove() was called for a file that is unknown
\* or was removed before.
UnknownFile == 0

VARIABLES
    client,         \* the Client: how its construction ended, and its configuration
    heap,           \* heap[o]: the fields of request object o
    optsOf,         \* optsOf[a]: the caller's object the a-th add() was given (0: none)
    nAdds,          \* number of add() invocations so far
    pc,             \* pc[a]: where the pipeline begun by the a-th add() stands
    calls,          \* calls[a]: what the a-th add() and its callbacks did, in order
    errorListeners, \* number of listeners attached for the 'error' event
    alive,          \* FALSE once an uncaught exception has ended the process
    removed,        \* the add()s whose file remove() or destroy() was called for
    shutdown        \* the destroy() invocations and what each did, in order

vars == <<client, heap, optsOf, nAdds, pc, calls, errorListeners, alive,
          removed, shutdown>>

TypeOK ==
    /\ heap \in [Adds -> [file : FileValues,
                          bucketId : BucketIdValues \cup {Str("id(u,n)")},
                          user : UserValues, bucketName : BucketNameValues]]
    /\ optsOf \in [Adds -> 0..MaxAdds]
    /\ nAdds \in 0..MaxAdds
    /\ pc \in [Adds -> {"idle", "AssertionError", "createToken", "getFilePointers",
                        "resolveFileFromPointers", "error", "TypeError", "console.log"}]
    /\ errorListeners \in 0..1
    /\ alive \in BOOLEAN
    /\ removed \subseteq Adds \cup {UnknownFile}
    /\ Len(shutdown) <= MaxDestroy
    /\ client.state \in {"new", "constructed", "AssertionError"}

----------------------------------------------------------------------------
(* What a step did is recorded as an event <<operation, x, y, z>>.         *)

Event(op, x, y, z) == <<op, x, y, z>>
Throw(e) == Event("throw", e, Undefined, Undefined)
Threw(events) == \E i \in 1..Len(events) : events[i][1] = "throw"

\* utils.calculateBucketId(user, bucketName): a pure, deterministic function
\* of its two arguments that yields a non-empty string.
calculateBucketId(user, bucketName) ==
    Str("id(" \o user[2] \o "," \o bucketName[2] \o ")")

\* assert(cond, message): nothing when cond holds, else an AssertionError is thrown.
assert(cond, message) == IF cond THEN <<>> ELSE <<Throw(Err(message))>>

----------------------------------------------------------------------------
(* The constructor.                                                        *)

\* Client.Defaults
Defaults == [bridge |-> Str("https://api.storj.io"), protocol |-> Str("http")]

\* x || d
Or(x, d) == IF Truthy(x) THEN x ELSE d

\* The values a caller may give for opts.bridge and opts.protocol.
ConfigValues == {Undefined, Null, Str(""), Str("x"), Num("0"), Num("7")}
Configs == [bridge : ConfigValues, protocol : ConfigValues]
NoConfig == [bridge |-> Undefined, protocol |-> Undefined]

\* No Client yet.
NoClient == [state |-> "new", given |-> NoConfig,
             bridge |-> Undefined, protocol |-> Undefined]

\* Client(opts): `arg` is what the caller passes and `given` the fields of
\* the object when it is one.  The result holds how the construction ended,
\* what was given, and this.bridge and this.protocol.
Client(arg, given) ==
    LET \* opts = opts || {}
        opts == IF arg[1] = "ref" THEN given ELSE NoConfig
        a1 == assert(arg # NumberArgument, "Client options must be an object")
        bridge == Or(opts.bridge, Defaults.bridge)
        protocol == Or(opts.protocol, Defaults.protocol)
        a2 == assert(TypeOf(bridge) = "string", "Bridge url must be a string")
        a3 == assert(TypeOf(protocol) = "string", "Protocol must be a string")
    IN  IF Threw(a1)
        THEN [state |-> "AssertionError", given |-> opts,
              bridge |-> Undefined, protocol |-> Undefined]
        ELSE [state |-> IF Threw(a2 \o a3) THEN "AssertionError" ELSE "constructed",
              given |-> opts, bridge |-> bridge, protocol |-> protocol]

\* The state before any Client is constructed.
InitNew ==
    /\ client = NoClient
    /\ heap = [o \in Adds |-> EmptyObject]
    /\ optsOf = [a \in Adds |-> 0]
    /\ nAdds = 0
    /\ pc = [a \in Adds |-> "idle"]
    /\ calls = [a \in Adds |-> <<>>]
    /\ errorListeners = 0
    /\ alive = TRUE
    /\ removed = {}
    /\ shutdown = <<>>

\* new Client(opts)
construct(arg, given) ==
    /\ client.state = "new"
    /\ client' = Client(arg, given)
    /\ UNCHANGED <<heap, optsOf, nAdds, pc, calls, errorListeners, alive,
                   removed, shutdown>>

\* The state after new Client(): a Client with the default configuration.
Init ==
    /\ client = Client(NoArgument, NoConfig)
    /\ heap = [o \in Adds |-> EmptyObject]
    /\ optsOf = [a \in Adds |-> 0]
    /\ nAdds = 0
    /\ pc = [a \in Adds |-> "idle"]
    /\ calls = [a \in Adds |-> <<>>]
    /\ errorListeners = 0
    /\ alive = TRUE
    /\ removed = {}
    /\ shutdown = <<>>

----------------------------------------------------------------------------
(* add.                                                                    *)

\* A scrubbing that does not check opts.file.
ScrubWithoutFileCheck(o) ==
    LET a2 == assert(TypeOf(o.user) = "string", "opts.user is required")
        a3 == assert(TypeOf(o.bucketName) = "string", "opts.bucketName is required")
        id == calculateBucketId(o.user, o.bucketName)
        derived == [o EXCEPT !.bucketId = id]
        a4(x) == assert(TypeOf(x.bucketId) = "string", "opts.bucketId must be a string")
    IN  IF ~Truthy(o.bucketId)
        THEN IF Threw(a2) THEN [opts |-> o, events |-> a2]
             ELSE IF Threw(a3) THEN [opts |-> o, events |-> a3]
             ELSE [opts |-> derived,
                   events |-> <<Event("calculateBucketId", o.user, o.bucketName, id)>>
                              \o a4(derived)]
        ELSE [opts |-> o, events |-> a4(o)]

\* A scrubbing that does not check opts.bucketName before it derives the
\* bucket id.
ScrubWithoutBucketNameCheck(o) ==
    LET a1 == assert(TypeOf(o.file) = "string", "Must provide a filename via opts.file")
        a2 == assert(TypeOf(o.user) = "string", "opts.user is required")
        id == calculateBucketId(o.user, o.bucketName)
        derived == [o EXCEPT !.bucketId = id]
        a4(x) == assert(TypeOf(x.bucketId) = "string", "opts.bucketId must be a string")
    IN  IF Threw(a1) THEN [opts |-> o, events |-> a1]
        ELSE IF ~Truthy(o.bucketId)
        THEN IF Threw(a2) THEN [opts |-> o, events |-> a2]
             ELSE [opts |-> derived,
                   events |-> <<Event("calculateBucketId", o.user, o.bucketName, id)>>
                              \o a4(derived)]
        ELSE [opts |-> o, events |-> a4(o)]

\* A scrubbing that derives the bucket id twice: once to check it, once to
\* store it.
ScrubDerivingTwice(o) ==
    LET a1 == assert(TypeOf(o.file) = "string", "Must provide a filename via opts.file")
        a2 == assert(TypeOf(o.user) = "string", "opts.user is required")
        a3 == assert(TypeOf(o.bucketName) = "string", "opts.bucketName is required")
        id == calculateBucketId(o.user, o.bucketName)
        derived == [o EXCEPT !.bucketId = id]
        a4(x) == assert(TypeOf(x.bucketId) = "string", "opts.bucketId must be a string")
    IN  IF Threw(a1) THEN [opts |-> o, events |-> a1]
        ELSE IF ~Truthy(o.bucketId)
        THEN IF Threw(a2) THEN [opts |-> o, events |-> a2]
             ELSE IF Threw(a3) THEN [opts |-> o, events |-> a3]
             ELSE [opts |-> derived,
                   events |-> <<Event("calculateBucketId", o.user, o.bucketName, id),
                                Event("calculateBucketId", o.user, o.bucketName, id)>>
                              \o a4(derived)]
        ELSE [opts |-> o, events |-> a4(o)]

\* Client.prototype.add, its scrubbing of the request object `o`: the object as
\* add() leaves it and the events of the scrubbing, the last one a throw when
\* an assertion failed.
Scrub(o) ==
    LET a1 == assert(TypeOf(o.file) = "string", "Must provide a filename via opts.file")
        a2 == assert(TypeOf(o.user) = "string", "opts.user is required")
        a3 == assert(TypeOf(o.bucketName) = "string", "opts.bucketName is required")
        id == calculateBucketId(o.user, o.bucketName)
        derived == [o EXCEPT !.bucketId = id]
        a4(x) == assert(TypeOf(x.bucketId) = "string", "opts.bucketId must be a string")
    IN  IF Threw(a1) THEN [opts |-> o, events |-> a1]
        ELSE IF ~Truthy(o.bucketId)
        THEN IF Threw(a2) THEN [opts |-> o, events |-> a2]
             ELSE IF Threw(a3) THEN [opts |-> o, events |-> a3]
             ELSE [opts |-> derived,
                   events |-> <<Event("calculateBucketId", o.user, o.bucketName, id)>>
                              \o a4(derived)]
        ELSE [opts |-> o, events |-> a4(o)]

\* The caller's objects an add() may be given again.
CallerObjects == {o \in 1..nAdds : optsOf[o] = o}

\* An add() that works on a copy of the caller's object.
Copied(before, scrubbed) == before

\* The caller's object as add() leaves it: opts is the caller's object itself,
\* so opts.bucketId = ... writes into it.  `before` is the object as it was
\* given and `scrubbed` what the scrubbing made of opts.
CallerObjectAfter(before, scrubbed) == scrubbed

\* An add() that starts nothing for a bucket id and file name an earlier
\* add() has a pipeline for.
Deduplicated(a, opts) ==
    IF \E b \in 1..(a - 1) :
          /\ pc[b] \notin {"idle", "AssertionError"}
          /\ heap[optsOf[b]].bucketId = opts.bucketId
          /\ heap[optsOf[b]].file = opts.file
    THEN <<>>
    ELSE <<Event("createToken", opts.bucketId, opts.file, Undefined)>>

\* What add() does once the scrubbing has passed: it calls createToken.
CreateTokenCall(a, opts) ==
    <<Event("createToken", opts.bucketId, opts.file, Undefined)>>

\* Client.prototype.add(opts): the (nAdds+1)-th invocation.  `arg` is what the
\* caller passes; `literal` is the object's content when it is a new object.
\* The first event records the call: the kind of argument and the bucketId
\* the object held when it was given.
add(arg, literal) ==
    LET a == nAdds + 1
        o == IF arg[1] = "ref" THEN arg[2] ELSE 0
        \* opts = opts || {}
        opts == IF o = 0 THEN EmptyObject ELSE IF o = a THEN literal ELSE heap[o]
        r == IF arg = NumberArgument
             THEN [opts |-> opts,
                   events |-> assert(FALSE, "Options must be an object")]
             ELSE Scrub(opts)
        threw == Threw(r.events)
    IN  /\ client.state = "constructed"
        /\ alive
        /\ nAdds < MaxAdds
        /\ nAdds' = a
        /\ optsOf' = [optsOf EXCEPT ![a] = o]
        /\ heap' = IF o = 0 THEN heap
                   ELSE [heap EXCEPT ![o] = CallerObjectAfter(opts, r.opts)]
        /\ calls' = [calls EXCEPT ![a] =
                        <<Event("add", Str(arg[1]), opts.bucketId, Undefined)>>
                        \o r.events
                        \o IF threw THEN <<>> ELSE CreateTokenCall(a, r.opts)]
        /\ pc' = [pc EXCEPT ![a] = IF threw THEN "AssertionError" ELSE "createToken"]
        /\ UNCHANGED <<client, errorListeners, alive, removed, shutdown>>

----------------------------------------------------------------------------
(* The bridge client.  Each call is answered by one invocation of the      *)
(* callback passed with it: callback(e, result).  A success passes null    *)
(* and the result; a failure passes a failure value, which is an Error or  *)
(* some other value, and either no result or the response it received.     *)

\* The token object the bridge issues for the a-th add()'s createToken call.
TokenOf(a) == Obj("t" \o ToString(a))

\* The pointer list the bridge resolves for the a-th add()'s getFilePointers call.
PointersOf(a) == Obj("p" \o ToString(a))

\* A response object that holds no token.
Response == Obj("")

\* x.token for an object x: the payload names the token the object holds.
TokenField(x) == IF x[1] = "object" /\ x[2] # "" THEN Str(x[2]) ELSE Undefined

CreateTokenReplies(a) ==
    { <<Null, TokenOf(a)>>,
      <<Err("createToken failed"), Undefined>>,
      <<Str("createToken failed"), Undefined>>,
      <<Str("createToken failed"), Response>> }

GetFilePointersReplies(a) ==
    { <<Null, PointersOf(a)>>,
      <<Err("getFilePointers failed"), Undefined>>,
      <<Str("getFilePointers failed"), Undefined>> }

ResolveReplies(a) ==
    { <<Null, Obj("stream")>>,
      <<Err("resolveFileFromPointers failed"), Undefined>> }

\* A reply that reports a failure.
IsFailure(e) == e # Null

\* An exception thrown out of a callback the bridge invoked is uncaught: it
\* ends the process, or is reported and the process goes on.
UncaughtOutcomes == {"exit", "continue"}

----------------------------------------------------------------------------
(* Client.prototype.error(e): throw e.                                     *)
\* The event records how many 'error' listeners were attached when it ran.
error(e) == <<Event("error", e, Num(ToString(errorListeners)), Undefined), Throw(e)>>

\* A token kept by the client and reused: the first add()'s, whatever token
\* the callback was given.
CachedToken(a, token) == TokenField(TokenOf(1))

\* The token add() passes to getFilePointers: token.token, of the token its
\* own createToken callback was given.
TokenArgument(a, token) == TokenField(token)

\* The callback add() passes to createToken (function(e, token) {...}),
\* invoked by the bridge with (e, token).
createTokenCallback(a, e, token, uncaught) ==
    LET opts == heap[optsOf[a]]
        reply == Event("createToken.callback", e, token, Undefined)
        does == IF InstanceOfError(e) THEN error(e)
                \* token.token of undefined or null
                ELSE IF token \in {Undefined, Null}
                THEN <<Throw(Err("TypeError"))>>
                ELSE <<Event("getFilePointers", opts.bucketId, opts.file,
                             TokenArgument(a, token))>>
    IN  /\ alive
        /\ pc[a] = "createToken"
        /\ calls' = [calls EXCEPT ![a] = @ \o <<reply>> \o does]
        /\ pc' = [pc EXCEPT ![a] = IF InstanceOfError(e) THEN "error"
                                   ELSE IF Threw(does) THEN "TypeError"
                                   ELSE "getFilePointers"]
        /\ alive' = (Threw(does) => uncaught = "continue")
        /\ UNCHANGED <<client, heap, optsOf, nAdds, errorListeners, removed, shutdown>>

\* The callback passed to getFilePointers (function(e, pointers) {...}),
\* invoked by the bridge with (e, pointers).
getFilePointersCallback(a, e, pointers, uncaught) ==
    LET reply == Event("getFilePointers.callback", e, pointers, Undefined)
        does == IF InstanceOfError(e) THEN error(e)
                ELSE <<Event("resolveFileFromPointers", pointers, Obj("{}"),
                             Str("console.log"))>>
    IN  /\ alive
        /\ pc[a] = "getFilePointers"
        /\ calls' = [calls EXCEPT ![a] = @ \o <<reply>> \o does]
        /\ pc' = [pc EXCEPT ![a] = IF InstanceOfError(e) THEN "error"
                                   ELSE "resolveFileFromPointers"]
        /\ alive' = (Threw(does) => uncaught = "continue")
        /\ UNCHANGED <<client, heap, optsOf, nAdds, errorListeners, removed, shutdown>>

\* A callback that starts the pipeline again when the reconstruction failed.
resolveCallbackRetrying(a, e, stream) ==
    /\ alive
    /\ pc[a] = "resolveFileFromPointers"
    /\ calls' = [calls EXCEPT ![a] =
                    Append(@, Event("console.log", e, stream, Undefined))
                    \o IF e = Null THEN <<>>
                       ELSE <<Event("createToken", heap[optsOf[a]].bucketId,
                                    heap[optsOf[a]].file, Undefined)>>]
    /\ pc' = [pc EXCEPT ![a] = IF e = Null THEN "console.log" ELSE "createToken"]
    /\ UNCHANGED <<client, heap, optsOf, nAdds, errorListeners, alive, removed, shutdown>>

\* console.log, the callback passed to resolveFileFromPointers, invoked by the
\* bridge with the outcome of the reconstruction: it prints its arguments.
resolveCallback(a, e, stream) ==
    /\ alive
    /\ pc[a] = "resolveFileFromPointers"
    /\ calls' = [calls EXCEPT ![a] = Append(@, Event("console.log", e, stream, Undefined))]
    /\ pc' = [pc EXCEPT ![a] = "console.log"]
    /\ UNCHANGED <<client, heap, optsOf, nAdds, errorListeners, alive, removed, shutdown>>

\* EventEmitter's on('error', listener), which Client inherits.
onError ==
    /\ client.state = "constructed"
    /\ alive
    /\ errorListeners = 0
    /\ errorListeners' = 1
    /\ UNCHANGED <<client, heap, optsOf, nAdds, pc, calls, alive, removed, shutdown>>

\* A remove() that drops the file at the index it looked up: for a file that
\* is unknown or was removed before the lookup finds nothing, and the last
\* file is dropped.
removeAtIndex(a) ==
    /\ client.state = "constructed"
    /\ alive
    /\ removed' = IF a <= nAdds /\ a \notin removed
                  THEN removed \cup {a}
                  ELSE removed \cup {UnknownFile} \cup {b \in {nAdds} : b > 0}
    /\ UNCHANGED <<client, heap, optsOf, nAdds, pc, calls, errorListeners, alive, shutdown>>

\* Client.prototype.remove(): an empty body.  That it was called for the
\* a-th add()'s file is recorded when that add() has been made; the file of
\* an add() not made yet is an unknown file.
remove(a) ==
    /\ client.state = "constructed"
    /\ alive
    /\ removed' = IF a <= nAdds /\ a \notin removed
                  THEN removed \cup {a} ELSE removed \cup {UnknownFile}
    /\ UNCHANGED <<client, heap, optsOf, nAdds, pc, calls, errorListeners, alive, shutdown>>

\* Client.prototype.destroy(): an empty body, which takes no callback.  That it
\* was called, for every file of the add()s made so far, is recorded.
destroy ==
    /\ client.state = "constructed"
    /\ alive
    /\ Len(shutdown) < MaxDestroy
    /\ shutdown' = Append(shutdown, "destroy")
    /\ removed' = removed \cup (1..nAdds)
    /\ UNCHANGED <<client, heap, optsOf, nAdds, pc, calls, errorListeners, alive>>

Next ==
    \/ \E arg \in {NoArgument, NumberArgument} \cup {Ref(o) : o \in CallerObjects} :
          add(arg, EmptyObject)
    \/ \E literal \in Requests : add(Ref(nAdds + 1), literal)
    \/ \E a \in Adds : \E r \in CreateTokenReplies(a), u \in UncaughtOutcomes :
          createTokenCallback(a, r[1], r[2], u)
    \/ \E a \in Adds : \E r \in GetFilePointersReplies(a), u \in UncaughtOutcomes :
          getFilePointersCallback(a, r[1], r[2], u)
    \/ \E a \in Adds : \E r \in ResolveReplies(a) : resolveCallback(a, r[1], r[2])
    \/ onError
    \/ \E a \in Adds : remove(a)
    \/ destroy

Spec == Init /\ [][Next]_vars

\* The bridge answers every call made to it: a pipeline that waits for a
\* callback is eventually called back, as long as the process lives.
BridgeAnswers(a) ==
    \/ \E r \in CreateTokenReplies(a), u \in UncaughtOutcomes :
          createTokenCallback(a, r[1], r[2], u)
    \/ \E r \in GetFilePointersReplies(a), u \in UncaughtOutcomes :
          getFilePointersCallback(a, r[1], r[2], u)
    \/ \E r \in ResolveReplies(a) : resolveCallback(a, r[1], r[2])

FairSpec == Spec /\ \A a \in Adds : WF_vars(BridgeAnswers(a))

\* add() over every request object, and the pipelines it starts.
NextAdd ==
    \/ \E arg \in {NoArgument, NumberArgument} \cup {Ref(o) : o \in CallerObjects} :
          add(arg, EmptyObject)
    \/ \E literal \in ObjectLiterals : add(Ref(nAdds + 1), literal)
    \/ \E a \in Adds : \E r \in CreateTokenReplies(a), u \in UncaughtOutcomes :
          createTokenCallback(a, r[1], r[2], u)
    \/ \E a \in Adds : \E r \in GetFilePointersReplies(a), u \in UncaughtOutcomes :
          getFilePointersCallback(a, r[1], r[2], u)
    \/ \E a \in Adds : \E r \in ResolveReplies(a) : resolveCallback(a, r[1], r[2])

SpecAdd == Init /\ [][NextAdd]_vars

\* The constructor over every configuration, and add() on what it made.
NextClient ==
    \/ \E arg \in {NoArgument, NumberArgument} : construct(arg, NoConfig)
    \/ \E given \in Configs : construct(Ref(0), given)
    \/ \E arg \in {NoArgument, NumberArgument} \cup {Ref(o) : o \in CallerObjects} :
          add(arg, EmptyObject)
    \/ \E literal \in Requests : add(Ref(nAdds + 1), literal)

SpecClient == InitNew /\ [][NextClient]_vars

----------------------------------------------------------------------------
(* Reading the record of a pipeline.                                       *)

Started(a) == pc[a] \notin {"idle", "AssertionError"}
Suspended(a) == pc[a] \in {"createToken", "getFilePointers", "resolveFileFromPointers"}
Positions(a, op) == {i \in 1..Len(calls[a]) : calls[a][i][1] = op}
Count(a, op) == Cardinality(Positions(a, op))
Has(a, op) == Positions(a, op) # {}

\* The bridge has answered `op` of the a-th add() with a success, a failure.
Succeeded(a, op) ==
    \E i \in Positions(a, op \o ".callback") : ~IsFailure(calls[a][i][2])
Failed(a, op) ==
    \E i \in Positions(a, op \o ".callback") : IsFailure(calls[a][i][2])

\* The reconstruction of the a-th add()'s file has ended, with success.
Complete(a) ==
    \E i \in Positions(a, "console.log") : ~IsFailure(calls[a][i][2])

\* Some call of the a-th add()'s pipeline was answered with a failure.
AnyFailure(a) ==
    \E i \in 1..Len(calls[a]) :
        /\ calls[a][i][1] \in {"createToken.callback", "getFilePointers.callback",
                               "console.log"}
        /\ IsFailure(calls[a][i][2])

----------------------------------------------------------------------------
(* Stage order.                                                            *)

\* C1: the stages of a file happen in strict order: getFilePointers is called
\* only after the file's createToken was answered with a success, and
\* resolveFileFromPointers only after its getFilePointers was answered with a
\* success; no stage starts while an earlier one is pending or has failed.
C1_StagesInOrder ==
    \A a \in Adds :
        /\ Has(a, "getFilePointers") =>
              Succeeded(a, "createToken") /\ ~Failed(a, "createToken")
        /\ Has(a, "resolveFileFromPointers") =>
              Succeeded(a, "getFilePointers") /\ ~Failed(a, "getFilePointers")

\* C2: when createToken fails for a file, whatever the failure value, the
\* file ends in the error state, the failure went through error(), neither
\* getFilePointers nor resolveFileFromPointers is called for it, and the
\* process lives on for the other files.
C2_TokenFailureHalts ==
    \A a \in Adds :
        Failed(a, "createToken") =>
            /\ pc[a] = "error"
            /\ Has(a, "error")
            /\ ~Has(a, "getFilePointers")
            /\ ~Has(a, "resolveFileFromPointers")
            /\ alive

\* C3: when createToken succeeds and getFilePointers fails for a file, the
\* file ends in the error state, exactly one error is observed for it, and
\* resolveFileFromPointers is never called for it.
C3_PointerFailureHalts ==
    \A a \in Adds :
        (Succeeded(a, "createToken") /\ Failed(a, "getFilePointers")) =>
            /\ pc[a] = "error"
            /\ Count(a, "error") = 1
            /\ ~Has(a, "resolveFileFromPointers")

\* C4: a failure in one file's pipeline never changes the outcome of another
\* file: a file whose own calls were all answered with a success is complete
\* or can still go on.
C4_FailureIsIsolated ==
    \A a \in Adds :
        (Started(a) /\ ~AnyFailure(a)) => (Complete(a) \/ alive)

----------------------------------------------------------------------------
(* Concurrent pipelines.                                                   *)

C6_OwnToken ==
    \A a \in Adds :
        /\ \A i \in Positions(a, "getFilePointers") :
              /\ \E j \in Positions(a, "createToken.callback") :
                    j < i /\ calls[a][i][4] = TokenField(calls[a][j][3])
              /\ \A b \in Adds \ {a} : calls[a][i][4] # TokenField(TokenOf(b))
              /\ Succeeded(a, "createToken") =>
                    calls[a][i][4] = TokenField(TokenOf(a))
        /\ Started(a) =>
              /\ Count(a, "createToken") = 1
              /\ \A i \in Positions(a, "createToken") :
                    /\ calls[a][i][2] = heap[optsOf[a]].bucketId
                    /\ calls[a][i][3] = heap[optsOf[a]].file

C6_Witness ==
    /\ nAdds = MaxAdds
    /\ \A a \in Adds :
          \E i \in Positions(a, "getFilePointers") :
              calls[a][i][4] = TokenField(TokenOf(a))

----------------------------------------------------------------------------
(* Errors and events.                                                      *)

\* C7: every failure of a pipeline stage goes to the error listener: when a
\* listener is attached as error() runs, the listener is handed the error
\* and nothing is thrown out of the callback.
C7_ErrorGoesToListener ==
    \A a \in Adds :
        \A i \in Positions(a, "error") :
            calls[a][i][3] # Num("0") =>
                /\ Has(a, "emit error")
                /\ ~Threw(calls[a])

\* C8: when getFilePointers succeeds for a file, the 'file' event is emitted
\* for it exactly once, no later than the start of its reconstruction; no
\* 'file' event is emitted for a file whose token or pointer stage failed.
C8_FileEventOnce ==
    \A a \in Adds :
        /\ Succeeded(a, "getFilePointers") =>
              /\ Count(a, "emit file") = 1
              /\ \A i \in Positions(a, "emit file") :
                    \A j \in Positions(a, "resolveFileFromPointers") : i < j
        /\ (Failed(a, "createToken") \/ Failed(a, "getFilePointers")) =>
              ~Has(a, "emit file")

----------------------------------------------------------------------------
(* remove and destroy.                                                     *)

\* C9: once remove (or destroy) was called for a file whose pipeline waits
\* for a callback, the result is discarded when it arrives: nothing more is
\* called, emitted or thrown for that file.
C9_RemovedIsQuiet ==
    [][\A a \in Adds : (a \in removed /\ Suspended(a)) => calls'[a] = calls[a]]_vars

\* C10: every destroy(cb) invokes cb, the second as the first.
C10_DestroyInvokesCallback ==
    \A i \in 1..Len(shutdown) :
        shutdown[i] = "destroy" =>
            \E j \in 1..Len(shutdown) : j > i /\ shutdown[j] = "callback"

\* C11: remove called for a file that is unknown or was removed before
\* raises no error and changes neither the files removed so far nor any
\* pipeline in flight.
C11_UnknownRemoveIsNoOp ==
    [][\A a \in Adds :
          (remove(a) /\ (a > nAdds \/ a \in removed)) =>
              /\ UNCHANGED <<client, heap, optsOf, nAdds, pc, calls,
                             errorListeners, alive, shutdown>>
              /\ removed' \ {UnknownFile} = removed \ {UnknownFile}]_vars

C11_Witness ==
    /\ UnknownFile \in removed
    /\ \E a \in Adds : Suspended(a) /\ a \notin removed

----------------------------------------------------------------------------
(* add: its input.                                                         *)

\* What the a-th add() was given: the kind of argument, the bucketId the
\* object held then, and the fields add() never writes.
Made(a) == pc[a] # "idle"
ArgumentKind(a) == calls[a][1][2][2]
GivenBucketId(a) == calls[a][1][3]
Given(a) == IF optsOf[a] = 0 THEN EmptyObject
            ELSE [heap[optsOf[a]] EXCEPT !.bucketId = GivenBucketId(a)]

\* The a-th add() ended in a throw, having called neither calculateBucketId
\* nor the bridge.
Rejected(a) ==
    /\ pc[a] = "AssertionError"
    /\ Len(calls[a]) = 2
    /\ calls[a][2][1] = "throw"
    /\ InstanceOfError(calls[a][2][2])

\* C12: two add()s given identical valid input each run their own pipeline:
\* each calls createToken once, passes its own token to getFilePointers and
\* its own pointers to resolveFileFromPointers; the second is not
\* deduplicated against the first.
SameInput(a, b) ==
    /\ Made(a) /\ Made(b)
    /\ pc[a] # "AssertionError" /\ pc[b] # "AssertionError"
    /\ Given(a).file = Given(b).file
    /\ heap[optsOf[a]].bucketId = heap[optsOf[b]].bucketId

OwnPipeline(a) ==
    /\ Count(a, "createToken") = 1
    /\ Count(a, "getFilePointers") <= 1
    /\ Count(a, "resolveFileFromPointers") <= 1
    /\ \A i \in Positions(a, "getFilePointers") :
          Succeeded(a, "createToken") => calls[a][i][4] = TokenField(TokenOf(a))
    /\ \A i \in Positions(a, "resolveFileFromPointers") :
          Succeeded(a, "getFilePointers") => calls[a][i][2] = PointersOf(a)

NoFileName(a) == optsOf[a] = 0 \/ TypeOf(Given(a).file) # "string"

C13_NoFileNameRejected ==
    \A a \in Adds : (Made(a) /\ NoFileName(a)) => Rejected(a)

C13_Witness ==
    \E a \in Adds :
        /\ Made(a) /\ ArgumentKind(a) = "none" /\ Rejected(a)
        /\ \E b \in Adds : Made(b) /\ optsOf[b] = b /\ NoFileName(b) /\ Rejected(b)
                           /\ Given(b).user = Str("u")

\* C14: an add() with a file name, no bucketId (none, or an empty one) and
\* opts.user or opts.bucketName missing throws synchronously, without calling
\* calculateBucketId or the bridge.
NoOwner(a) ==
    /\ optsOf[a] # 0
    /\ TypeOf(Given(a).file) = "string"
    /\ ~Truthy(GivenBucketId(a))
    /\ (TypeOf(Given(a).user) # "string" \/ TypeOf(Given(a).bucketName) # "string")

C14_NoOwnerRejected ==
    \A a \in Adds : (Made(a) /\ NoOwner(a)) => Rejected(a)

C14_Witness ==
    \E a \in Adds :
        /\ Made(a) /\ NoOwner(a) /\ Rejected(a)
        /\ Given(a).user = Str("u") /\ Given(a).bucketName = Undefined

\* C15: whenever add() goes on to the pipeline, the bucket id and the file
\* name it passes to createToken are non-empty strings; an add() given an
\* empty file name or an empty bucket id throws instead.
NonEmptyString(v) == TypeOf(v) = "string" /\ v # Str("")

C15_NonEmptyArguments ==
    \A a \in Adds :
        /\ \A i \in Positions(a, "createToken") :
              NonEmptyString(calls[a][i][2]) /\ NonEmptyString(calls[a][i][3])
        /\ (Made(a) /\ optsOf[a] # 0
              /\ (Given(a).file = Str("") \/ GivenBucketId(a) = Str(""))) =>
              Rejected(a)

\* C16: an add() given opts.user and opts.bucketName and no bucketId calls
\* calculateBucketId exactly once, with (user, bucketName), and passes what
\* it returned to createToken and to getFilePointers.
Derives(a) ==
    /\ optsOf[a] # 0
    /\ TypeOf(Given(a).file) = "string"
    /\ ~Truthy(GivenBucketId(a))
    /\ TypeOf(Given(a).user) = "string"
    /\ TypeOf(Given(a).bucketName) = "string"

C16_DerivedOnceAndUsed ==
    \A a \in Adds :
        (Made(a) /\ Derives(a)) =>
            /\ Count(a, "calculateBucketId") = 1
            /\ Count(a, "createToken") = 1
            /\ \A i \in Positions(a, "calculateBucketId") :
                  /\ calls[a][i][2] = Given(a).user
                  /\ calls[a][i][3] = Given(a).bucketName
                  /\ calls[a][i][4] = calculateBucketId(Given(a).user, Given(a).bucketName)
                  /\ \A j \in Positions(a, "createToken") :
                        i < j /\ calls[a][j][2] = calls[a][i][4]
                  /\ \A j \in Positions(a, "getFilePointers") :
                        calls[a][j][2] = calls[a][i][4]

C16_Witness ==
    \E a \in Adds :
        /\ Made(a) /\ Derives(a)
        /\ Has(a, "calculateBucketId")
        /\ Has(a, "getFilePointers")

\* C17: constructing a Client throws whenever a given bridge or protocol is
\* present and not a string, falsy values included; a default never stands
\* in for a given value that is not a string.
PresentNonString(v) == v # Undefined /\ TypeOf(v) # "string"

C17_NonStringConfigRejected ==
    (client.state # "new"
        /\ (PresentNonString(client.given.bridge)
              \/ PresentNonString(client.given.protocol))) =>
        client.state = "AssertionError"

----------------------------------------------------------------------------
(* The status of a file, read from what its pipeline did.                  *)

Status(a) ==
    IF ~Started(a) THEN "None"
    ELSE IF Has(a, "error") \/ Threw(calls[a]) THEN "Errored"
    ELSE IF \E i \in Positions(a, "console.log") : IsFailure(calls[a][i][2])
         THEN "Errored"
    ELSE IF Complete(a) THEN "Complete"
    ELSE IF Has(a, "resolveFileFromPointers") THEN "Downloading"
    ELSE IF Has(a, "getFilePointers") THEN "TokenRequested"
    ELSE "Pending"

Terminal == {"Complete", "Errored"}

\* The moves of one step.  PointersResolved is passed within the step of the
\* getFilePointers callback, which goes on to the reconstruction at once.
Forward ==
    { <<"None", "Pending">>, <<"Pending", "TokenRequested">>,
      <<"TokenRequested", "Downloading">>, <<"Downloading", "Complete">> }
    \cup { <<s, "Errored">> : s \in {"Pending", "TokenRequested", "Downloading"} }

----------------------------------------------------------------------------
(* Failure values that are no Error.                                       *)

\* The values that are no Error object: failure values of any other kind,
\* and null.
NoError(v) == v[1] # "Error"

\* The event that follows the i-th one of the a-th add()'s record.
Following(a, i) == IF i < Len(calls[a]) THEN calls[a][i + 1] ELSE <<"none">>

----------------------------------------------------------------------------
(* The caller's object.                                                    *)

\* C20: add() writes the bucket id it derived into the caller's object, so
\* that an add() given the same object again derives nothing and passes the
\* scrubbing; given a bucketId that is not empty, add() derives nothing and
\* leaves the object as it was.
C20_DerivedIdWrittenBack ==
    \A a \in Adds :
        (Made(a) /\ optsOf[a] # 0) =>
            /\ (~Truthy(GivenBucketId(a)) /\ Started(a)) =>
                  /\ Has(a, "calculateBucketId")
                  /\ heap[optsOf[a]].bucketId =
                        calculateBucketId(Given(a).user, Given(a).bucketName)
            /\ \A b \in Adds :
                  (a < b /\ Made(b) /\ optsOf[b] = optsOf[a] /\ Started(a)) =>
                      /\ GivenBucketId(b) = heap[optsOf[a]].bucketId
                      /\ ~Has(b, "calculateBucketId")
                      /\ Started(b)
            /\ Truthy(GivenBucketId(a)) =>
                  /\ ~Has(a, "calculateBucketId")
                  /\ heap[optsOf[a]] = Given(a)

C20_Witness ==
    /\ optsOf[1] = 1 /\ optsOf[2] = 1
    /\ ~Truthy(GivenBucketId(1))
    /\ Has(1, "calculateBucketId")
    /\ Started(2) /\ ~Has(2, "calculateBucketId")

====
